---- MODULE Spec2Model ----
(***************************************************************************)
(* Model of src/aperture_phot.py: the driver light_curves (exposure        *)
(* loading, then the catalog cross-match) and the exposure class.          *)
(*                                                                         *)
(* Coordinates are integers counting ticks of 2e-9 degree, so that values  *)
(* finer than the 8 decimals of the identity string exist and no value     *)
(* falls exactly half way between two printed values.  Strings are         *)
(* sequences: an identity string is its sequence of characters, a file     *)
(* name and a date string are sequences of name tokens.                    *)
(*                                                                         *)
(* An exception that nothing catches ends the run: pc = "crashed" and err  *)
(* names the exception and the line that raised it.                        *)
(***************************************************************************)
EXTENDS Integers, Sequences, FiniteSets, TLC

\* ---------------------------------------------------------------- bounds
MaxFiles == 2
MaxTargets == 3
MaxRows == 2

\* ------------------------------------------------------ program constants
\* '{:012.8f}': field width 12, 8 decimals (line 83)
Width == 12
Decimals == 8
\* for idx in [3] (line 71)
ExtensionIdx == 3
\* KIC[2] (line 114): the third row, index 3 counting from 1
StoredRow == 3

\* ------------------------------------------------------------ input pools
\* time stamps a file name may carry, and a stem that is no time stamp
Stamps == {"2009114174833", "2009114204835"}
Stems == Stamps \cup {"notes"}

\* names glob('./data/*.fits') can return, as token sequences
FileNames ==
    {<<"kplr", s, "_ffi-cal.fits">> : s \in Stems}
    \cup {<<s, "_ffi-cal.fits">> : s \in Stamps}
    \cup {<<"kplr", s, ".fits">> : s \in Stamps}

\* detections an extension may produce: sky position and aperture flux
DetPool ==
    { [ra |-> 1, dec |-> 1, aperture_sum |-> 10],
      [ra |-> 1, dec |-> 2, aperture_sum |-> 20],
      [ra |-> 2, dec |-> 1, aperture_sum |-> 30],
      [ra |-> 0, dec |-> 0, aperture_sum |-> 40] }

\* catalog coordinates (RA, Dec)
TargetPool == { <<1, 1>>, <<2, -1>> }

SearchRadii == {1, 2}

SeqsUpTo(S, n) == UNION { [1..k -> S] : k \in 0..n }

\* the rows one extension yields: each detected source once
Tables == { t \in SeqsUpTo(DetPool, MaxRows) :
              \A i, j \in 1..Len(t) : t[i] = t[j] => i = j }
Catalogs == UNION { [1..k -> TargetPool] : k \in 1..MaxTargets }

\* ------------------------------------------------- the identity string
RECURSIVE Pow10(_)
Pow10(n) == IF n = 0 THEN 1 ELSE 10 * Pow10(n - 1)

DigitChar(d) == <<"0", "1", "2", "3", "4", "5", "6", "7", "8", "9">>[d + 1]

\* the decimal digits of n >= 0, at least one
RECURSIVE Digits(_)
Digits(n) == IF n < 10 THEN <<DigitChar(n)>>
             ELSE Append(Digits(n \div 10), DigitChar(n % 10))

RECURSIVE Zeros(_)
Zeros(k) == IF k <= 0 THEN <<>> ELSE <<"0">> \o Zeros(k - 1)

\* n >= 0 in exactly w digits, leading zeros (n < 10^w)
FixedDigits(n, w) == Zeros(w - Len(Digits(n))) \o Digits(n)

Abs(v) == IF v < 0 THEN -v ELSE v

\* v ticks rounded to the nearest 1e-8 degree (5 ticks), as a count of 1e-8
Round8(v) == (Abs(v) + 2) \div 5

\* '{:012.8f}'.format(v): sign, zero padding to the field width, the integer
\* part, '.', and 8 decimals
Format012_8f(v) ==
    LET r == Round8(v)
        body == Digits(r \div Pow10(Decimals)) \o <<".">>
                \o FixedDigits(r % Pow10(Decimals), Decimals)
        sign == IF v < 0 THEN <<"-">> ELSE <<>>
    IN sign \o Zeros(Width - Len(sign) - Len(body)) \o body

\* a variant of Ident that leaves the sign of Dec out
IdentUnsigned(source) ==
    Format012_8f(source[1]) \o Format012_8f(Abs(source[2]))

\* line 83: name = fmt(RA) + ('-' if DEC<0 else '+') + fmt(abs(DEC))
Ident(source) ==
    Format012_8f(source[1])
    \o (IF source[2] < 0 THEN <<"-">> ELSE <<"+">>)
    \o Format012_8f(Abs(source[2]))

\* ------------------------------------------------------------------ state
VARIABLES
    KIC,            \* the catalog passed to light_curves: a sequence of
                    \* <<RA, Dec>>; empty until line 81 first reads it
    search_radius,  \* the search_radius argument; 0 until the catalog loop
                    \* that reads it starts
    nfiles,         \* files of glob('./data/*.fits') not yet visited
    filepath,       \* the loop variable of line 63: the file's name
    ex,             \* the exposure object of line 66
    extPos,         \* position in the extension list of line 71
    ext_log,        \* what each extension call of this exposure did: whether
                    \* it raised, and the rows its photometry held
    exposures,      \* the exposures dict: date string -> source table
    order,          \* the iteration order of exposures.items()
    sources,        \* the sources dict (the results mapping)
    tgt,            \* index of the catalog row the loop of line 81 is at
    name,           \* the local variable name
    light_curve,    \* the local list light_curve
    expPos,         \* position of the loop of line 87 in order
    hit,            \* index, coords and magnitude of lines 102-103
    pc,             \* where the run is
    err             \* the uncaught exception that ended the run, if any

vars == <<KIC, search_radius, nfiles, filepath, ex, extPos, ext_log,
          exposures, order, sources, tgt, name, light_curve, expPos, hit, pc, err>>

NoEx == [date_str |-> <<>>, datetime |-> <<>>, source_table |-> [rows |-> <<>>]]
NoHit == [index |-> 0, coords |-> <<0, 0>>, magnitude |-> 0]
EmptyDict == [k \in {} |-> <<>>]

\* ------------------------------------------------------------- exposure
\* str.replace(old, ''): every occurrence of the token is removed
RECURSIVE Replace(_, _)
Replace(s, old) ==
    IF s = <<>> THEN <<>>
    ELSE (IF Head(s) = old THEN <<>> ELSE <<Head(s)>>) \o Replace(Tail(s), old)

\* line 148: basename without '_ffi-cal.fits' and without 'kplr'
DateStr(filename) == Replace(Replace(filename, "_ffi-cal.fits"), "kplr")

\* a variant of StrptimeOk that accepts whatever is left of the name
StrptimeLenient(date_str) == Len(date_str) >= 1

\* line 149: time.strptime(date_str, '%Y%j%H%M%S') parses a date string that
\* is one time stamp and nothing else, and raises ValueError on any other
StrptimeOk(date_str) == Len(date_str) = 1 /\ date_str[1] \in Stamps

\* lines 140-149: the constructor; opens tells whether pf.open succeeds
NewExposure(filename) ==
    [date_str |-> DateStr(filename),
     datetime |-> <<"struct_time", DateStr(filename)[1]>>,
     source_table |-> [rows |-> <<>>]]

\* line 209: vstack([self.source_table, photometry_table], join_type='inner')
Vstack(table, photometry) == [rows |-> table.rows \o photometry]

\* a variant of TryExtension in which the rows are merged although the call
\* raised
TryExtensionMergesAnyway(table, raised, photometry) == Vstack(table, photometry)

\* lines 73-74: try: ex.extension(idx) / except: pass.  When extension
\* raises (anywhere in lines 178-209, so before line 209 reassigns the
\* table) the table is left as it was; else the photometry rows are merged
TryExtension(table, raised, photometry) ==
    IF raised THEN table ELSE Vstack(table, photometry)

Extensions == <<ExtensionIdx>>

\* --------------------------------------------------------- cross-match
\* lines 91-92: x < c + search_radius and x > c - search_radius
InWindow(x, c, r) == x < c + r /\ x > c - r

\* xs[np.where(...)]: the elements of xs inside the window, in order
RECURSIVE Filter(_, _, _)
Filter(xs, c, r) ==
    IF xs = <<>> THEN <<>>
    ELSE (IF InWindow(Head(xs), c, r) THEN <<Head(xs)>> ELSE <<>>)
         \o Filter(Tail(xs), c, r)

\* exp['ra'], exp['dec'], exp['aperture_sum'] (line 90)
Column(table, col) == [i \in 1..Len(table.rows) |-> table.rows[i][col]]

\* a variant of FilterRA that keeps the RA of the rows inside both windows
RECURSIVE FilterRowsJoint(_, _, _)
FilterRowsJoint(rows, source, r) ==
    IF rows = <<>> THEN <<>>
    ELSE (IF InWindow(Head(rows).ra, source[1], r)
             /\ InWindow(Head(rows).dec, source[2], r)
          THEN <<Head(rows).ra>> ELSE <<>>)
         \o FilterRowsJoint(Tail(rows), source, r)

FilterRAJoint(exp, source, r) == FilterRowsJoint(exp.rows, source, r)

\* line 91: the RA column cut to the RA window
FilterRA(exp, source, r) == Filter(Column(exp, "ra"), source[1], r)

\* line 92: the Dec column cut to the Dec window
FilterDec(exp, source, r) == Filter(Column(exp, "dec"), source[2], r)

\* any(xs) of line 97: some element is truthy, that is non-zero
AnyTruthy(xs) == \E i \in 1..Len(xs) : xs[i] # 0

Dist2(p, q) == (p[1] - q[1]) * (p[1] - q[1]) + (p[2] - q[2]) * (p[2] - q[2])

\* line 102: the indices tree.query may return, those of the points nearest
\* to source (which one of several equally near is not specified)
Nearest(detections, source) ==
    { i \in 1..Len(detections) :
        \A j \in 1..Len(detections) :
            Dist2(detections[i], source) <= Dist2(detections[j], source) }

\* a variant of AnyLightCurve that is true of the empty list too
AnyLightCurveAlways(lc) == TRUE

\* line 112: any(light_curve); every element is a non-empty tuple, so truthy
AnyLightCurve(lc) == lc # <<>>

\* attribute lookup obj.attr: defined when the object has the attribute
HasAttr(obj, attr) == attr \in DOMAIN obj

Perms(S) == { f \in [1..Cardinality(S) -> S] :
                \A i, j \in 1..Cardinality(S) : f[i] = f[j] => i = j }

\* ------------------------------------------------------------------- Init
Init ==
    /\ KIC = <<>>
    /\ search_radius = 0
    /\ nfiles \in 0..MaxFiles
    /\ filepath = <<>>
    /\ ex = NoEx
    /\ extPos = 0
    /\ ext_log = <<>>
    /\ exposures = EmptyDict
    /\ order = <<>>
    /\ sources = EmptyDict
    /\ tgt = 0
    /\ name = <<>>
    /\ light_curve = <<>>
    /\ expPos = 0
    /\ hit = NoHit
    /\ pc = "glob"
    /\ err = "none"

Crash(e) ==
    /\ pc' = "crashed"
    /\ err' = e

\* ---------------------------------------------------------------- actions
\* line 66: ex = exposure(filepath), for the next file of the glob
Construct ==
    /\ pc = "glob"
    /\ nfiles > 0
    /\ nfiles' = nfiles - 1
    /\ \E filename \in FileNames, opens \in BOOLEAN :
        /\ filepath' = filename
        /\ IF ~opens
           THEN /\ Crash("IOError:143")
                /\ UNCHANGED <<ex, extPos, ext_log>>
           ELSE IF ~StrptimeOk(DateStr(filename))
           THEN /\ Crash("ValueError:149")
                /\ UNCHANGED <<ex, extPos, ext_log>>
           ELSE /\ ex' = NewExposure(filename)
                /\ extPos' = 1
                /\ ext_log' = <<>>
                /\ pc' = "ext"
                /\ err' = err
    /\ UNCHANGED <<KIC, search_radius, exposures, order, sources,
                   tgt, name, light_curve, expPos, hit>>

\* lines 71-74: one turn of the extension loop
RunExtension ==
    /\ pc = "ext"
    /\ extPos <= Len(Extensions)
    /\ \E raised \in BOOLEAN, photometry \in Tables :
        /\ Len(ex.source_table.rows) + Len(photometry) <= MaxRows
        /\ ex' = [ex EXCEPT !.source_table =
                      TryExtension(ex.source_table, raised, photometry)]
        /\ ext_log' = Append(ext_log, [raised |-> raised, rows |-> photometry])
    /\ extPos' = extPos + 1
    /\ UNCHANGED <<KIC, search_radius, nfiles, filepath, exposures,
                   order, sources, tgt, name, light_curve, expPos, hit, pc, err>>

\* line 77: exposures[ex.date_str] = ex.source_table
Record ==
    /\ pc = "ext"
    /\ extPos > Len(Extensions)
    /\ exposures' = (ex.date_str :> ex.source_table) @@ exposures
    /\ pc' = "glob"
    /\ UNCHANGED <<KIC, search_radius, nfiles, filepath, ex, extPos,
                   ext_log, order, sources, tgt, name, light_curve, expPos,
                   hit, err>>

\* line 81: the file loop is over and the catalog loop starts.  The
\* arguments KIC and search_radius are first read from here on, so their
\* values are drawn here.  The dict's iteration order is one order of its
\* keys, the same for every target; the file loop's variables are not read
\* again
BeginMatchOver(catalogs, radii) ==
    /\ pc = "glob"
    /\ nfiles = 0
    /\ KIC' \in catalogs
    /\ search_radius' \in radii
    /\ order' \in Perms(DOMAIN exposures)
    /\ tgt' = 1
    /\ filepath' = <<>>
    /\ ex' = NoEx
    /\ extPos' = 0
    /\ ext_log' = <<>>
    /\ pc' = "target"
    /\ UNCHANGED <<nfiles, exposures, sources, name, light_curve, expPos, hit, err>>

BeginMatch == BeginMatchOver(Catalogs, SearchRadii)

\* lines 81-84: the next catalog row, its identity string, an empty curve
NextTarget ==
    /\ pc = "target"
    /\ IF tgt > Len(KIC)
       THEN /\ pc' = "done"
            /\ UNCHANGED <<name, light_curve, expPos>>
       ELSE /\ name' = Ident(KIC[tgt])
            /\ light_curve' = <<>>
            /\ expPos' = 1
            /\ pc' = "scan"
    /\ UNCHANGED <<KIC, search_radius, nfiles, filepath, ex,
                   extPos, ext_log, exposures, order, sources, tgt, hit, err>>

\* lines 87-103: one turn of "for name,exp in exposures.items()" up to the
\* nearest-neighbour query
ScanExposure ==
    /\ pc = "scan"
    /\ IF expPos > Len(order)
       THEN /\ pc' = "finish"
            /\ UNCHANGED <<name, expPos, hit, err>>
       ELSE LET exp == exposures[order[expPos]]
                source == KIC[tgt]
                phot == Column(exp, "aperture_sum")
                ra == FilterRA(exp, source, search_radius)
                dec == FilterDec(exp, source, search_radius)
                detections == [i \in 1..Len(ra) |-> <<ra[i], dec[i]>>]
            IN  /\ name' = order[expPos]
                /\ IF AnyTruthy(ra) /\ AnyTruthy(dec)
                   THEN IF Len(ra) # Len(dec)
                        THEN /\ Crash("ValueError:99")
                             /\ UNCHANGED <<expPos, hit>>
                        ELSE /\ \E index \in Nearest(detections, source) :
                                  hit' = [index |-> index,
                                          coords |-> detections[index],
                                          magnitude |-> phot[index]]
                             /\ pc' = "matched"
                             /\ UNCHANGED <<expPos, err>>
                   ELSE /\ expPos' = expPos + 1
                        /\ UNCHANGED <<hit, pc, err>>
    /\ UNCHANGED <<KIC, search_radius, nfiles, filepath, ex,
                   extPos, ext_log, exposures, order, sources, tgt, light_curve>>

\* line 107: light_curve.append((exp.datetime, magnitude)); exp is the value
\* line 77 stored, the source table, so the lookup of datetime raises
AppendPoint ==
    /\ pc = "matched"
    /\ LET exp == exposures[order[expPos]]
       IN IF ~HasAttr(exp, "datetime")
          THEN /\ Crash("AttributeError:107")
               /\ UNCHANGED <<light_curve, expPos>>
          ELSE /\ light_curve' = Append(light_curve, <<exp.datetime, hit.magnitude>>)
               /\ expPos' = expPos + 1
               /\ pc' = "scan"
               /\ err' = err
    /\ UNCHANGED <<KIC, search_radius, nfiles, filepath, ex,
                   extPos, ext_log, exposures, order, sources, tgt, name, hit>>

\* lines 112-123: the end of a target's iteration.  KIC is either a
\* structured array with the field names ('ra','de') or a plain 2-column
\* array, as get_KIC returns, whose dtype.names is None: line 114 raises
\* TypeError on a plain array and IndexError on a catalog of fewer than three
\* rows.  Line 118 raises AttributeError (a list has no T) after the record
\* is stored, so lines 119-123 (title, savefig) never run and the run reads
\* dtype.names at most once
FinishTarget ==
    /\ pc = "finish"
    /\ IF AnyLightCurve(light_curve)
       THEN \E structured \in BOOLEAN :
            IF ~structured
            THEN /\ Crash("TypeError:114")
                 /\ UNCHANGED <<sources, tgt>>
            ELSE IF Len(KIC) < StoredRow
            THEN /\ Crash("IndexError:114")
                 /\ UNCHANGED <<sources, tgt>>
            ELSE /\ sources' = (name :> [ra |-> KIC[StoredRow][1],
                                         de |-> KIC[StoredRow][2],
                                         light_curve |-> light_curve])
                               @@ sources
                 /\ Crash("AttributeError:118")
                 /\ UNCHANGED tgt
       ELSE /\ tgt' = tgt + 1
            /\ pc' = "target"
            /\ UNCHANGED <<sources, err>>
    /\ UNCHANGED <<KIC, search_radius, nfiles, filepath, ex,
                   extPos, ext_log, exposures, order, name, light_curve, expPos, hit>>

Next ==
    \/ Construct
    \/ RunExtension
    \/ Record
    \/ BeginMatch
    \/ NextTarget
    \/ ScanExposure
    \/ AppendPoint
    \/ FinishTarget

Spec == Init /\ [][Next]_vars

\* ============================================================== claims
\* what the claims speak of, stated apart from the matching code above
Rows(d) == exposures[d].rows
NearRA(row, t) == Abs(row.ra - KIC[t][1]) < search_radius
NearDec(row, t) == Abs(row.dec - KIC[t][2]) < search_radius

\* exposure d yields a candidate for target t: after the two window cuts an
\* RA and a Dec remain
Candidate(t, d) ==
    /\ \E i \in 1..Len(Rows(d)) : NearRA(Rows(d)[i], t)
    /\ \E i \in 1..Len(Rows(d)) : NearDec(Rows(d)[i], t)

\* the plain case for target t: each detection of exposure d is inside both
\* windows or outside both, and none inside has a zero coordinate
Plain(t, d) ==
    \A i \in 1..Len(Rows(d)) :
        /\ NearRA(Rows(d)[i], t) <=> NearDec(Rows(d)[i], t)
        /\ NearRA(Rows(d)[i], t) => (Rows(d)[i].ra # 0 /\ Rows(d)[i].dec # 0)

\* exposure d holds a detection inside the window of target t (RA and Dec of
\* one row), in the plain case
Detection(t, d) ==
    /\ Plain(t, d)
    /\ \E i \in 1..Len(Rows(d)) : NearRA(Rows(d)[i], t) /\ NearDec(Rows(d)[i], t)

Detected(t) == \E d \in DOMAIN exposures : Detection(t, d)

\* the run has ended, normally or by an uncaught exception
Ended == pc \in {"done", "crashed"}

\* the catalog loop is past target t, or ended inside its iteration
Processed(t) ==
    /\ tgt >= 1
    /\ \/ t < tgt
       \/ t = tgt /\ t <= Len(KIC) /\ pc \in {"done", "crashed"}

\* ---- C1
\* C1: a results entry is written only for a target for which at least one
\* exposure yielded a candidate: every step that changes the results mapping
\* is taken while the catalog loop is at such a target.  (No plot is ever
\* written: line 118 raises before savefig.)
C1_EntryOnlyWithCandidate ==
    [][sources' # sources =>
        \E d \in DOMAIN exposures : Candidate(tgt, d)]_vars

\* a run that ended normally, with exposures loaded, over a catalog holding a
\* target no exposure yields a candidate for, and no entry in the results
C1_Witness ==
    /\ pc = "done"
    /\ DOMAIN exposures # {}
    /\ \E t \in 1..Len(KIC) :
        /\ \A d \in DOMAIN exposures : ~Candidate(t, d)
        /\ \E d \in DOMAIN exposures : Rows(d) # <<>>
    /\ DOMAIN sources = {}

\* ---- C2
\* C2: once the scan has a match for the target (so that its light curve is
\* to be non-empty), the name that lines 114, 119 and 120 use as results key,
\* plot title and file name is the target's identity string.
C2_NameIsIdentity ==
    pc = "matched" => name = Ident(KIC[tgt])

\* ---- C3
\* C3: the flux taken for the light curve (magnitude, line 103) is the
\* aperture_sum of the detection the nearest-neighbour query selected: the
\* exposure's table has a row with the selected coordinates and that flux.
C3_FluxOfSelectedDetection ==
    pc = "matched" =>
        \E i \in 1..Len(Rows(order[expPos])) :
            /\ Rows(order[expPos])[i].ra = hit.coords[1]
            /\ Rows(order[expPos])[i].dec = hit.coords[2]
            /\ Rows(order[expPos])[i].aperture_sum = hit.magnitude

\* ---- C4
\* C4: a target with a detection in its window, once its iteration is over,
\* has a record in the results mapping, and that record holds the target's
\* own catalog row.
C4_RecordHoldsOwnRow ==
    \A t \in 1..Len(KIC) :
        (Processed(t) /\ Detected(t)) =>
            \E k \in DOMAIN sources :
                sources[k].ra = KIC[t][1] /\ sources[k].de = KIC[t][2]

\* ---- C5
\* the rows merged by the extension calls that completed
RECURSIVE MergedByCompleted(_)
MergedByCompleted(log) ==
    IF log = <<>> THEN <<>>
    ELSE (IF Head(log).raised THEN <<>> ELSE Head(log).rows)
         \o MergedByCompleted(Tail(log))

SomeRaised(log) == \E i \in 1..Len(log) : log[i].raised

\* C5: when an extension call of the exposure has raised, the exception does
\* not end the run (the only exceptions that end a run during loading are a
\* later constructor's); the exposure's table holds exactly the rows of the
\* calls that completed; and once the extension loop is over that table is
\* recorded under the exposure's date string.
C5_RaisedExtensionSkipped ==
    SomeRaised(ext_log) =>
        /\ ex.source_table.rows = MergedByCompleted(ext_log)
        /\ \/ pc \in {"ext", "glob"} /\ err = "none"
           \/ pc = "crashed" /\ err \in {"IOError:143", "ValueError:149"}
        /\ pc # "ext" =>
              /\ ex.date_str \in DOMAIN exposures
              /\ exposures[ex.date_str].rows = MergedByCompleted(ext_log)

\* an extension raised after its photometry held rows; the exposure is
\* recorded with an empty table and the file loop has files left to visit
C5_Witness ==
    /\ pc = "glob"
    /\ nfiles > 0
    /\ \E i \in 1..Len(ext_log) : ext_log[i].raised /\ ext_log[i].rows # <<>>
    /\ ex.date_str \in DOMAIN exposures
    /\ exposures[ex.date_str].rows = <<>>

\* ---- C6
\* the file name has the expected form: an optional 'kplr', a time stamp,
\* '_ffi-cal.fits'
ExpectedName(filename) ==
    \E stamp \in Stamps :
        filename \in {<<"kplr", stamp, "_ffi-cal.fits">>, <<stamp, "_ffi-cal.fits">>}

\* C6: a file whose name has not the expected form ends the run with the
\* ValueError of line 149, uncaught: the run never goes on to the file's
\* extensions, the run is ended exactly when that error is raised, and the
\* exposures mapping gets no entry for the file (its keys are the date
\* strings of files of the expected form only).
C6_BadNameIsFatal ==
    /\ pc = "ext" => ExpectedName(filepath)
    /\ err = "ValueError:149" =>
          /\ pc = "crashed"
          /\ ~ExpectedName(filepath)
          /\ DateStr(filepath) \notin DOMAIN exposures
    /\ \A k \in DOMAIN exposures : \E stamp \in Stamps : k = <<stamp>>

\* a first exposure was recorded, then a file of another form ended the run
C6_Witness ==
    /\ pc = "crashed"
    /\ err = "ValueError:149"
    /\ ~ExpectedName(filepath)
    /\ DOMAIN exposures # {}

\* ---- C7
\* C7: when the run is over, for two targets of the same identity string that
\* both have a detection in their window, the results mapping holds an entry
\* under that string, and it is the record of the later target.
C7_LaterTargetOverwrites ==
    (Ended /\ tgt >= 1) =>
        \A i, j \in 1..Len(KIC) :
            (i < j /\ Ident(KIC[i]) = Ident(KIC[j]) /\ Detected(i) /\ Detected(j)) =>
                /\ Ident(KIC[j]) \in DOMAIN sources
                /\ sources[Ident(KIC[j])].ra = KIC[j][1]
                /\ sources[Ident(KIC[j])].de = KIC[j][2]

\* ---- C9
\* the time stamp of the exposure recorded under date string d
ExposureTime(d) == <<"struct_time", d[1]>>

\* the first n exposures of the iteration order that yield a candidate for t
RECURSIVE CandidateExposures(_, _)
CandidateExposures(t, n) ==
    IF n = 0 THEN <<>>
    ELSE CandidateExposures(t, n - 1)
         \o (IF Candidate(t, order[n]) THEN <<order[n]>> ELSE <<>>)

\* the exposures whose turn of the loop of line 87 is over (by its end or by
\* an exception) for the current target
Examined ==
    IF pc = "scan" THEN expPos - 1
    ELSE IF pc = "finish" THEN Len(order)
    ELSE expPos

\* C9: the light curve of the current target is, in iteration order, one pair
\* for each exposure examined so far that yields a candidate, and nothing
\* else: the pair's time is the exposure's time stamp, its flux the
\* aperture_sum of a detection of that exposure inside the window.  Stated
\* for the plain case of every exposure examined.
C9_OnePairPerCandidateExposure ==
    (/\ tgt \in 1..Len(KIC)
     /\ pc \in {"scan", "finish", "crashed"}
     /\ \A n \in 1..Examined : Plain(tgt, order[n])) =>
        LET E == CandidateExposures(tgt, Examined)
        IN /\ Len(light_curve) = Len(E)
           /\ \A i \in 1..Len(E) :
                /\ light_curve[i][1] = ExposureTime(E[i])
                /\ \E k \in 1..Len(Rows(E[i])) :
                      /\ NearRA(Rows(E[i])[k], tgt) /\ NearDec(Rows(E[i])[k], tgt)
                      /\ Rows(E[i])[k].aperture_sum = light_curve[i][2]

\* ---- C10
\* the rows of exposure d whose RA (Dec) lies in the RA (Dec) window of t
RowsNearRA(t, d) == { i \in 1..Len(Rows(d)) : NearRA(Rows(d)[i], t) }
RowsNearDec(t, d) == { i \in 1..Len(Rows(d)) : NearDec(Rows(d)[i], t) }

IdentCoords ==
    { <<0, 0>>, <<1, 0>>, <<5, 0>>, <<0, -1>>, <<0, -5>>, <<0, 5>>, <<3, 1>>,
      <<750000003, -5>>, <<750000005, -5>> }

InitIdent ==
    /\ KIC = <<>>
    /\ search_radius = 0
    /\ nfiles = 0
    /\ filepath = <<>>
    /\ ex = NoEx
    /\ extPos = 0
    /\ ext_log = <<>>
    /\ exposures = EmptyDict
    /\ order = <<>>
    /\ sources = EmptyDict
    /\ tgt = 0
    /\ name = <<>>
    /\ light_curve = <<>>
    /\ expPos = 0
    /\ hit = NoHit
    /\ pc = "glob"
    /\ err = "none"

\* the catalog loop over catalogs of two of these coordinates
IdentCatalogs == [1..2 -> IdentCoords]

BeginIdent == BeginMatchOver(IdentCatalogs, {1})

NextIdent ==
    \/ BeginIdent
    \/ NextTarget
    \/ ScanExposure
    \/ FinishTarget

SpecIdent == InitIdent /\ [][NextIdent]_vars

\* the identity string has just been built for the current target (line 83)
NameBuilt == pc = "scan" /\ expPos = 1

OnGrid(source) == source[1] % 5 = 0 /\ source[2] % 5 = 0

\* C8 as claimed: the identity string is a function of (RA, Dec) and differs
\* for any two different (RA, Dec): a catalog row has the current target's
\* string exactly when it has its coordinates.
C8_InjectiveEverywhere ==
    NameBuilt =>
        \A j \in 1..Len(KIC) : (Ident(KIC[j]) = name) <=> (KIC[j] = KIC[tgt])

\* C8 amended: the same, for coordinates that are whole multiples of 1e-8
\* degree (no digits beyond the 8 decimals the string prints).
C8_InjectiveOnGrid ==
    NameBuilt =>
        \A j \in 1..Len(KIC) :
            (OnGrid(KIC[j]) /\ OnGrid(KIC[tgt])) =>
                ((Ident(KIC[j]) = name) <=> (KIC[j] = KIC[tgt]))

\* two different on-grid targets in one catalog, with different strings
C8_Witness ==
    /\ NameBuilt
    /\ \E j \in 1..Len(KIC) :
        /\ OnGrid(KIC[j]) /\ OnGrid(KIC[tgt])
        /\ KIC[j] # KIC[tgt]
        /\ Ident(KIC[j]) # name

====
